---- MODULE Spec2Model ----
(***************************************************************************)
(* radiodigger: the shared now-playing record (NowPlaying), the player     *)
(* (Player) with its metadata poller thread, and the part of the           *)
(* interactive loop (main / station_browser) that drives them.             *)
(*                                                                         *)
(* A text is a sequence of tokens; the token " " is whitespace, every      *)
(* other token stands for a run of non-whitespace characters.  None is     *)
(* the string "None"; the token "--" is the dash of the source's texts.    *)
(*                                                                         *)
(* Three specifications share the variables:                               *)
(*   Spec        the two threads, statement by statement, with the lock;   *)
(*   SpecHist    NowPlaying driven call by call, long enough for the       *)
(*               history to reach max_history;                             *)
(*   SpecPlayer  the Player's operations as the interactive loop calls     *)
(*               them (single thread).                                     *)
(***************************************************************************)
EXTENDS Integers, Sequences, FiniteSets, TLC

VARIABLES
    station_name,   \* NowPlaying.station_name
    stationuuid,    \* NowPlaying.stationuuid
    line,           \* NowPlaying.line
    history,        \* NowPlaying.history, newest first
    lock,           \* owner of NowPlaying.lock: "free", "main" or "poller"
    nowplay_file,   \* content of NOWPLAY_FILE
    tmux_opt,       \* tmux user option @radiodigger_now_playing
    in_tmux,        \* "TMUX" in os.environ and shutil.which("tmux")
    volumes,        \* Player.volumes
    state,          \* Player.state
    vol_file,       \* content of VOL_FILE
    state_file,     \* content of STATE_FILE
    stop_flag,      \* Player._stop_flag
    media,          \* the engine's current media (its url) or "None"
    playing,        \* the engine is playing
    engineVol,      \* the engine's volume
    pc,             \* position of each thread
    retpc,          \* where each thread continues after the lock is released
    local_line,     \* update_line's local `line`, per thread
    cur_st,         \* play_station's argument `station`
    snap_name,      \* station_browser's station_name (from snapshot)
    snap_line,      \* station_browser's np_line
    snap_hist,      \* station_browser's history
    snap_alias,     \* station_browser's history is the very list NowPlaying.history
    ticks,          \* iterations the poller has started
    op,             \* the operation of the latest call (SpecHist, SpecPlayer)
    arg,            \* its argument
    res,            \* its return value
    volkeys,        \* volume keys pressed so far (SpecPlayer)
    fail_tick,      \* the iteration of the poller's first failed tick, 0 if none
    fs,             \* the files of CONFIG_DIR: path -> [exists, data] (SpecStore)
    sp,             \* the statement the process has reached (SpecStore)
    ens,            \* position of ensure_dirs in its list of files
    wr,             \* the file write in progress
    faults,         \* times the process was killed or a file removed from outside
    saves,          \* save_json calls so far
    favs,           \* station_browser's favs
    b_volumes,      \* station_browser's volumes
    b_state,        \* station_browser's state
    selected,       \* station_browser's selected (index from 0)
    offset,         \* station_browser's offset
    show_history,   \* station_browser's show_history
    hist_sel,       \* station_browser's hist_sel
    hist_scroll,    \* station_browser's hist_scroll
    bpc,            \* where the main thread is: "search", "browse", "goto_prompt", "quit"
    fav_file,       \* content of FAV_FILE
    term_h          \* height of the terminal, h of stdscr.getmaxyx()

vars == <<station_name, stationuuid, line, history, lock, nowplay_file, tmux_opt,
          in_tmux, volumes, state, vol_file, state_file, stop_flag, media, playing,
          engineVol, pc, retpc, local_line, cur_st, snap_name, snap_line, snap_hist,
          snap_alias, ticks, op, arg, res, volkeys, fail_tick, fs, sp, ens, wr, faults,
          saves, favs, b_volumes, b_state, selected, offset, show_history, hist_sel,
          hist_scroll, bpc, fav_file, term_h>>

npVars == <<station_name, stationuuid, line, history, nowplay_file, tmux_opt>>
playerVars == <<volumes, state, vol_file, state_file, media, playing, engineVol>>
threadVars == <<lock, stop_flag, pc, retpc, local_line, cur_st, snap_name, snap_line,
                snap_hist, snap_alias, ticks>>
callVars == <<op, arg, res, volkeys>>
\* what the steps of the specifications leave alone, apart from those that name it
storeVars == <<fs, sp, ens, wr, faults, saves, favs, b_volumes, b_state>>
browserVars == <<selected, offset, show_history, hist_sel, hist_scroll, bpc, fav_file,
                 term_h>>
envVars == <<in_tmux, fail_tick, storeVars, browserVars>>

----------------------------------------------------------------------------
(* Bounds of the model *)

\* poller iterations explored in Spec
MaxTicks == 3
\* in SpecHist, the placeholder and "Ready" texts are offered while the history is shorter
RichLen == 2
\* volume keys explored in SpecPlayer
MaxVolKeys == 2

----------------------------------------------------------------------------
(* Values *)

None == "None"
SPACE == " "
PLACEHOLDER == <<"--">>
READY == <<"Ready">>
NO_METADATA == <<"Stream (no metadata)">>

max_history == 200

Min(a, b) == IF a < b THEN a ELSE b
Max(a, b) == IF a > b THEN a ELSE b

clamp(n, lo, hi) == Max(lo, Min(hi, n))

\* Python truthiness of an optional string
Truthy(x) == x # None /\ x # ""

RECURSIVE LStrip(_)
LStrip(s) == IF s # <<>> /\ Head(s) = SPACE THEN LStrip(Tail(s)) ELSE s

RECURSIVE RStrip(_)
RStrip(s) == IF s # <<>> /\ s[Len(s)] = SPACE THEN RStrip(SubSeq(s, 1, Len(s) - 1)) ELSE s

\* str.strip()
Strip(s) == RStrip(LStrip(s))

\* list.insert(0, x)
Insert0_Append(h, x) == h \o <<x>>
Insert0(h, x) == <<x>> \o h

\* self.history[:self.max_history]
HistorySlice_NoTruncation(h) == h
HistorySlice(h) == SubSeq(h, 1, Min(Len(h), max_history))

\* the test `line != self.line` of update_line
IsNewLine_AgainstHead(l, cur, h) == h = <<>> \/ l # h[1]
IsNewLine(l, cur, h) == l # cur

\* station_name or "Unknown"
OrUnknown(n) == IF Truthy(n) THEN n ELSE "Unknown"

\* f"{self.station_name} :: {self.line}".strip()
NowplayOut(n, l) == Strip(<<n, SPACE, "::", SPACE>> \o l)

\* the stations of the current search result
Stations == <<
    [name |-> "R1", stationuuid |-> "u1", url_resolved |-> "http://r1"],
    [name |-> "",   stationuuid |-> "u2", url_resolved |-> "http://r2"],
    [name |-> "R3", stationuuid |-> "u3", url_resolved |-> ""] >>

\* the step of the + and - keys
VOLUME_STEP == 5

\* `if not url` of play_station, negated
UrlPresent_Always(st) == TRUE
UrlPresent(st) == Truthy(st.url_resolved)

\* d[k] = v on a dict
DictSet(d, k, v) == [x \in DOMAIN d \cup {k} |-> IF x = k THEN v ELSE d[x]]

\* the volume play_station applies when the station has none saved and the engine is silent
DEFAULT_VOLUME == 70

\* what set_volume(vol) hands to the engine: clamp(int(vol), 0, 100)
SetVolumeValue_Unclamped(v) == v
SetVolumeValue(v) == clamp(v, 0, 100)

\* `stationuuid and stationuuid in self.volumes`
HasSavedVolume(u, vols) == Truthy(u) /\ u \in DOMAIN vols

\* the engine's volume after the volume part of play_station
VolumeAfterPlay_KeepSilent(u, vols, ev) ==
    IF HasSavedVolume(u, vols) THEN SetVolumeValue(vols[u]) ELSE ev
VolumeAfterPlay(u, vols, ev) ==
    IF HasSavedVolume(u, vols) THEN SetVolumeValue(vols[u])
    ELSE IF ev <= 0 THEN SetVolumeValue(DEFAULT_VOLUME)
    ELSE ev

\* the value shutdown() stores in _stop_flag, whatever it held before
ShutdownFlag_Toggle(f) == ~f

ShutdownFlag(f) == TRUE

DefaultState == [last_stationuuid |-> None, show_history |-> TRUE]
EmptyMap == [u \in {} |-> 0]

----------------------------------------------------------------------------
(* the JSON files of CONFIG_DIR *)

FAV_FILE == <<"favorites.json">>
STATE_FILE == <<"state.json">>
VOL_FILE == <<"volumes.json">>
Targets == {FAV_FILE, STATE_FILE, VOL_FILE}

\* tmp = path + ".tmp"
TmpPath_InPlace(path) == path

TmpPath(path) == path \o <<".tmp">>

Paths == Targets \cup {TmpPath(p) : p \in Targets}

\* a path that names no file, and a file that holds the chunks d
Missing == [exists |-> FALSE, data |-> <<>>]
File(d) == [exists |-> TRUE, data |-> d]

\* the keys of the three structures in the order json.dump writes them here
KeyOrder == <<"1", "2", "u1", "u2", "last_stationuuid", "show_history">>

RECURSIVE Entries(_, _)
Entries(d, keys) ==
    IF keys = <<>> THEN <<>>
    ELSE IF Head(keys) \in DOMAIN d
         THEN <<<<Head(keys), d[Head(keys)]>>>> \o Entries(d, Tail(keys))
         ELSE Entries(d, Tail(keys))

\* json.dump(data, f, indent=2): the chunks written, one per brace and per item
Serialize(d) ==
    IF DOMAIN d = {} THEN <<<<"{}">>>>
    ELSE <<<<"{">>>> \o Entries(d, KeyOrder) \o <<<<"}">>>>

\* json.load accepts the chunks
Parses(c) ==
    \/ c = <<<<"{}">>>>
    \/ /\ Len(c) >= 3
       /\ Len(c[1]) = 1 /\ c[1][1] = "{"
       /\ Len(c[Len(c)]) = 1 /\ c[Len(c)][1] = "}"
       /\ \A i \in 2..(Len(c) - 1) : Len(c[i]) = 2

\* the dict json.load builds from chunks it accepts
Parse(c) ==
    IF c = <<<<"{}">>>> THEN EmptyMap
    ELSE [k \in {c[i][1] : i \in 2..(Len(c) - 1)} |->
            c[CHOOSE i \in 2..(Len(c) - 1) : c[i][1] = k][2]]

\* load_json(path, default) on the directory f; what is returned when reading or
\* parsing fails
load_json_EmptyOnError(f, path, default) ==
    IF ~f[path].exists THEN default
    ELSE IF ~Parses(f[path].data) THEN EmptyMap
    ELSE Parse(f[path].data)

load_json(f, path, default) ==
    IF ~f[path].exists THEN default
    ELSE IF ~Parses(f[path].data) THEN default
    ELSE Parse(f[path].data)

\* os.replace(src, dst)
Replace(f, src, dst) ==
    IF src = dst THEN f ELSE [f EXCEPT ![dst] = f[src], ![src] = Missing]

\* the defaults ensure_dirs writes and Player.__init__ and station_browser pass
DefaultOf(p) == IF p = STATE_FILE THEN DefaultState ELSE EmptyMap
EnsureOrder == <<FAV_FILE, STATE_FILE, VOL_FILE>>

\* what a file may hold when the process starts: nothing, something an earlier
\* run saved, or something that is not JSON (cut short, empty)
SavedBefore(p) ==
    IF p = FAV_FILE THEN [s \in {"1"} |-> "u2"]
    ELSE IF p = VOL_FILE THEN [u \in {"u1"} |-> 40]
    ELSE [last_stationuuid |-> "u2", show_history |-> FALSE]
\* not JSON: a file cut short, an empty file, a file of something else
NotJson(p) ==
    IF p = FAV_FILE THEN SubSeq(Serialize(SavedBefore(p)), 1, 2)
    ELSE IF p = VOL_FILE THEN <<>>
    ELSE <<<<"last_stationuuid=u2">>>>
StartContents(p) == {Missing, File(Serialize(SavedBefore(p))), File(NotJson(p))}

\* no write in progress
NoWrite == [kind |-> "none", path |-> <<>>, tmp |-> <<>>, todo |-> <<>>,
            data |-> EmptyMap, prev |-> Missing, ret |-> "none"]

MaxFaults == 1
MaxSaves == 2


----------------------------------------------------------------------------
(* NowPlaying, one call at a time *)

\* line and history after update_line(text)
UpdateLineResult(cur, h, text) ==
    LET l == Strip(text) IN
    IF l = <<>> THEN <<cur, h>>
    ELSE IF IsNewLine(l, cur, h) THEN <<l, HistorySlice(Insert0(h, l))>>
    ELSE <<cur, h>>

\* _write_nowplay with the given fields
WriteNowplay(n, l) ==
    /\ nowplay_file' = NowplayOut(n, l) \o <<"\n">>
    /\ tmux_opt' = IF in_tmux THEN NowplayOut(n, l) ELSE tmux_opt

update_line(text) ==
    LET r == UpdateLineResult(line, history, text) IN
    /\ line' = r[1]
    /\ history' = r[2]
    /\ IF Strip(text) # <<>> /\ IsNewLine(Strip(text), line, history)
       THEN WriteNowplay(station_name, r[1])
       ELSE UNCHANGED <<nowplay_file, tmux_opt>>
    /\ UNCHANGED <<station_name, stationuuid>>

set_station_ClearsLine(n, u) ==
    /\ station_name' = OrUnknown(n)
    /\ stationuuid' = u
    /\ line' = PLACEHOLDER
    /\ history' = <<>>
    /\ WriteNowplay(OrUnknown(n), PLACEHOLDER)

set_station(n, u) ==
    /\ station_name' = OrUnknown(n)
    /\ stationuuid' = u
    /\ WriteNowplay(OrUnknown(n), line)
    /\ UNCHANGED <<line, history>>

----------------------------------------------------------------------------
(* Initial state: after NowPlaying() and Player() are constructed in main *)

InitNowPlaying ==
    /\ station_name = "--"
    /\ stationuuid = None
    /\ line = PLACEHOLDER
    /\ history = <<>>
    /\ lock = "free"
    /\ nowplay_file = <<>>
    /\ tmux_opt = <<>>

InitThreads ==
    /\ stop_flag = FALSE
    /\ pc = [main |-> "start", poller |-> "loop"]
    /\ retpc = [main |-> "start", poller |-> "loop"]
    /\ local_line = [main |-> <<>>, poller |-> <<>>]
    /\ cur_st = Stations[1]
    /\ snap_name = "--"
    /\ snap_line = PLACEHOLDER
    /\ snap_hist = <<>>
    /\ snap_alias = FALSE
    /\ ticks = 0
    /\ fail_tick = 0

InitCalls ==
    /\ op = "init"
    /\ arg = <<>>
    /\ res = None
    /\ volkeys = 0

InitPlayer(vf, sf, ev) ==
    /\ vol_file = vf
    /\ state_file = sf
    /\ volumes = vf
    /\ state = sf
    /\ media = None
    /\ playing = FALSE
    /\ engineVol = ev

\* everything the steps of SpecStore leave alone
notStoreVars == <<npVars, in_tmux, fail_tick, threadVars, vol_file, state_file, media,
                  playing, engineVol, volkeys, browserVars>>
memVars == <<volumes, state, favs, b_volumes, b_state>>

\* the browser before station_browser is entered
InitBrowser ==
    /\ selected = 0
    /\ offset = 0
    /\ show_history = TRUE
    /\ hist_sel = 0
    /\ hist_scroll = 0
    /\ bpc = "search"
    /\ fav_file = EmptyMap
    /\ term_h = 30

InitStore ==
    /\ fs = [p \in Paths |-> Missing]
    /\ sp = "down"
    /\ ens = 1
    /\ wr = NoWrite
    /\ faults = 0
    /\ saves = 0
    /\ favs = EmptyMap
    /\ b_volumes = EmptyMap
    /\ b_state = DefaultState

Init ==
    /\ InitNowPlaying
    /\ in_tmux \in BOOLEAN
    /\ InitThreads
    /\ InitCalls
    /\ InitPlayer(EmptyMap, DefaultState, 0)
    /\ InitStore
    /\ InitBrowser

----------------------------------------------------------------------------
(* SpecHist: any sequence of update_line and set_station calls *)

TextT == <<"t">>
TextAT == <<"a", SPACE, "--", SPACE, "t">>

HistTexts == {<<>>, <<SPACE>>, <<SPACE, "t", SPACE>>, TextT, TextAT}
EarlyTexts == {PLACEHOLDER, READY}

HistUpdateLine ==
    \E text \in HistTexts \cup (IF Len(history) < RichLen THEN EarlyTexts ELSE {}) :
        /\ update_line(text)
        /\ op' = "update_line"
        /\ arg' = text
        /\ res' = None
        /\ UNCHANGED <<envVars, playerVars, threadVars, volkeys>>

HistSetStation ==
    \E i \in 1..Len(Stations) :
        /\ set_station(Stations[i].name, Stations[i].stationuuid)
        /\ op' = "set_station"
        /\ arg' = Stations[i]
        /\ res' = None
        /\ UNCHANGED <<envVars, playerVars, threadVars, volkeys>>

NextHist == HistUpdateLine \/ HistSetStation

SpecHist == Init /\ [][NextHist]_vars

----------------------------------------------------------------------------
(* Spec: the main thread and the poller thread, statement by statement *)

snapVars == <<snap_name, snap_line, snap_hist, snap_alias>>

\* the process is alive: the daemon poller thread runs only until main has returned
Alive == pc.main # "exited"
Running(t) == t = "main" \/ Alive

Goto(t, p) == pc' = [pc EXCEPT ![t] = p]

\* the metadata a tick may find on the media: artist, title, NowPlaying, Description
\* (an absent tag is the empty text, as `get_meta(...) or ""` makes it)
Metas == {
    [artist |-> <<"a">>, title |-> <<"t">>, now_playing |-> <<>>, description |-> <<>>],
    [artist |-> <<>>, title |-> <<"t">>, now_playing |-> <<>>, description |-> <<>>],
    [artist |-> <<"a">>, title |-> <<>>, now_playing |-> <<SPACE>>, description |-> <<"d">>],
    [artist |-> <<>>, title |-> <<>>, now_playing |-> <<>>, description |-> <<>>] }

\* the line _meta_loop builds from the tags
MetaLine(m) ==
    IF m.artist # <<>> /\ m.title # <<>> THEN m.artist \o <<SPACE, "--", SPACE>> \o m.title
    ELSE IF m.title # <<>> THEN m.title
    ELSE IF m.now_playing # <<>> THEN m.now_playing
    ELSE IF m.description # <<>> THEN m.description
    ELSE NO_METADATA

(* update_line, by either thread; local_line[t] holds the argument *)

ul_strip(t) ==
    /\ pc[t] = "ul_strip"
    /\ Running(t)
    /\ local_line' = [local_line EXCEPT ![t] = Strip(local_line[t])]
    /\ IF Strip(local_line[t]) = <<>> THEN Goto(t, retpc[t]) ELSE Goto(t, "ul_acquire")
    /\ UNCHANGED <<npVars, envVars, playerVars, callVars, snapVars, lock, stop_flag,
                   retpc, cur_st, ticks>>

ul_acquire(t) ==
    /\ pc[t] = "ul_acquire"
    /\ Running(t)
    /\ lock = "free"
    /\ lock' = t
    /\ Goto(t, "ul_cmp")
    /\ UNCHANGED <<npVars, envVars, playerVars, callVars, snapVars, stop_flag, retpc,
                   local_line, cur_st, ticks>>

ul_cmp(t) ==
    /\ pc[t] = "ul_cmp"
    /\ Running(t)
    /\ IF IsNewLine(local_line[t], line, history)
       THEN Goto(t, "ul_setline") ELSE Goto(t, "ul_release")
    /\ UNCHANGED <<npVars, envVars, playerVars, callVars, snapVars, lock, stop_flag,
                   retpc, local_line, cur_st, ticks>>

ul_setline(t) ==
    /\ pc[t] = "ul_setline"
    /\ Running(t)
    /\ line' = local_line[t]
    /\ Goto(t, "ul_insert")
    /\ UNCHANGED <<station_name, stationuuid, history, nowplay_file, tmux_opt, envVars,
                   playerVars, callVars, snapVars, lock, stop_flag, retpc, local_line,
                   cur_st, ticks>>

\* insert(0, line) changes the list in place: a list that is the same object changes too
ul_insert(t) ==
    /\ pc[t] = "ul_insert"
    /\ Running(t)
    /\ history' = Insert0(history, local_line[t])
    /\ snap_hist' = IF snap_alias THEN Insert0(snap_hist, local_line[t]) ELSE snap_hist
    /\ Goto(t, "ul_slice")
    /\ UNCHANGED <<station_name, stationuuid, line, nowplay_file, tmux_opt, envVars,
                   playerVars, callVars, snap_name, snap_line, snap_alias, lock,
                   stop_flag, retpc, local_line, cur_st, ticks>>

\* the slice is a new list, bound to self.history
ul_slice(t) ==
    /\ pc[t] = "ul_slice"
    /\ Running(t)
    /\ history' = HistorySlice(history)
    /\ snap_alias' = FALSE
    /\ Goto(t, "ul_write")
    /\ UNCHANGED <<station_name, stationuuid, line, nowplay_file, tmux_opt, envVars,
                   playerVars, callVars, snap_name, snap_line, snap_hist, lock,
                   stop_flag, retpc, local_line, cur_st, ticks>>

(* _write_nowplay, called under the lock by update_line ("ul_") and set_station ("ss_") *)

\* open(NOWPLAY_FILE, "w") and f.write(out + "\n")
wn_file(t, at, next) ==
    /\ pc[t] = at
    /\ Running(t)
    /\ nowplay_file' = NowplayOut(station_name, line) \o <<"\n">>
    /\ Goto(t, next)
    /\ UNCHANGED <<station_name, stationuuid, line, history, tmux_opt, envVars,
                   playerVars, callVars, snapVars, lock, stop_flag, retpc, local_line,
                   cur_st, ticks>>

\* subprocess.run(["tmux", "set", ...]) when running under tmux
wn_tmux(t, at, next) ==
    /\ pc[t] = at
    /\ Running(t)
    /\ tmux_opt' = IF in_tmux THEN NowplayOut(station_name, line) ELSE tmux_opt
    /\ Goto(t, next)
    /\ UNCHANGED <<station_name, stationuuid, line, history, nowplay_file, envVars,
                   playerVars, callVars, snapVars, lock, stop_flag, retpc, local_line,
                   cur_st, ticks>>

ul_write(t) == wn_file(t, "ul_write", "ul_tmux")
ul_tmux(t) == wn_tmux(t, "ul_tmux", "ul_release")

\* leaving `with self.lock` of update_line
ul_release(t) ==
    /\ pc[t] = "ul_release"
    /\ Running(t)
    /\ lock' = "free"
    /\ Goto(t, retpc[t])
    /\ UNCHANGED <<npVars, envVars, playerVars, callVars, snapVars, stop_flag, retpc,
                   local_line, cur_st, ticks>>

(* set_station(name, stationuuid), called by play_station on the main thread *)

ss_acquire ==
    /\ pc.main = "ss_acquire"
    /\ lock = "free"
    /\ lock' = "main"
    /\ Goto("main", "ss_name")
    /\ UNCHANGED <<npVars, envVars, playerVars, callVars, snapVars, stop_flag, retpc,
                   local_line, cur_st, ticks>>

ss_name ==
    /\ pc.main = "ss_name"
    /\ station_name' = OrUnknown(cur_st.name)
    /\ Goto("main", "ss_uuid")
    /\ UNCHANGED <<stationuuid, line, history, nowplay_file, tmux_opt, envVars,
                   playerVars, callVars, snapVars, lock, stop_flag, retpc, local_line,
                   cur_st, ticks>>

ss_uuid ==
    /\ pc.main = "ss_uuid"
    /\ stationuuid' = cur_st.stationuuid
    /\ Goto("main", "ss_write")
    /\ UNCHANGED <<station_name, line, history, nowplay_file, tmux_opt, envVars,
                   playerVars, callVars, snapVars, lock, stop_flag, retpc, local_line,
                   cur_st, ticks>>

ss_write == wn_file("main", "ss_write", "ss_tmux")
ss_tmux == wn_tmux("main", "ss_tmux", "ss_release")

ss_release ==
    /\ pc.main = "ss_release"
    /\ lock' = "free"
    /\ Goto("main", "ps_media")
    /\ UNCHANGED <<npVars, envVars, playerVars, callVars, snapVars, stop_flag, retpc,
                   local_line, cur_st, ticks>>

(* snapshot(), called by station_browser once per frame *)

sn_acquire_NoLock ==
    /\ pc.main = "sn_acquire"
    /\ Goto("main", "sn_name")
    /\ UNCHANGED <<npVars, envVars, playerVars, callVars, snapVars, lock, stop_flag,
                   retpc, local_line, cur_st, ticks>>

sn_acquire ==
    /\ pc.main = "sn_acquire"
    /\ lock = "free"
    /\ lock' = "main"
    /\ Goto("main", "sn_name")
    /\ UNCHANGED <<npVars, envVars, playerVars, callVars, snapVars, stop_flag, retpc,
                   local_line, cur_st, ticks>>

sn_name ==
    /\ pc.main = "sn_name"
    /\ snap_name' = station_name
    /\ Goto("main", "sn_line")
    /\ UNCHANGED <<npVars, envVars, playerVars, callVars, snap_line, snap_hist,
                   snap_alias, lock, stop_flag, retpc, local_line, cur_st, ticks>>

sn_line ==
    /\ pc.main = "sn_line"
    /\ snap_line' = line
    /\ Goto("main", "sn_hist")
    /\ UNCHANGED <<npVars, envVars, playerVars, callVars, snap_name, snap_hist,
                   snap_alias, lock, stop_flag, retpc, local_line, cur_st, ticks>>

\* list(self.history): a new list with the same entries
sn_hist ==
    /\ pc.main = "sn_hist"
    /\ snap_hist' = history
    /\ snap_alias' = FALSE
    /\ Goto("main", "sn_release")
    /\ UNCHANGED <<npVars, envVars, playerVars, callVars, snap_name, snap_line, lock,
                   stop_flag, retpc, local_line, cur_st, ticks>>

sn_release ==
    /\ pc.main = "sn_release"
    /\ lock' = "free"
    /\ Goto("main", "getch")
    /\ UNCHANGED <<npVars, envVars, playerVars, callVars, snapVars, stop_flag, retpc,
                   local_line, cur_st, ticks>>

(* main: update_line("Ready"), the search screen, station_browser's loop *)

m_start ==
    /\ pc.main = "start"
    /\ local_line' = [local_line EXCEPT !.main = READY]
    /\ retpc' = [retpc EXCEPT !.main = "search"]
    /\ Goto("main", "ul_strip")
    /\ UNCHANGED <<npVars, envVars, playerVars, callVars, snapVars, lock, stop_flag,
                   cur_st, ticks>>

\* a search that finds Stations; station_browser starts with fresh locals.  The state
\* file names no last station, so the autostart of main is not taken.
m_search ==
    /\ pc.main = "search"
    /\ snap_name' = "--"
    /\ snap_line' = PLACEHOLDER
    /\ snap_hist' = <<>>
    /\ snap_alias' = FALSE
    /\ Goto("main", "sn_acquire")
    /\ UNCHANGED <<npVars, envVars, playerVars, callVars, lock, stop_flag, retpc,
                   local_line, cur_st, ticks>>

\* ENTER on the selected station: player.play_station(stations[selected])
key_enter ==
    /\ pc.main = "getch"
    /\ \E i \in 1..Len(Stations) : cur_st' = Stations[i]
    /\ Goto("main", "ps_url")
    /\ UNCHANGED <<npVars, envVars, playerVars, callVars, snapVars, lock, stop_flag,
                   retpc, local_line, ticks>>

\* s: player.stop()
key_stop ==
    /\ pc.main = "getch"
    /\ playing' = FALSE
    /\ Goto("main", "sn_acquire")
    /\ UNCHANGED <<npVars, envVars, volumes, state, vol_file, state_file, media, engineVol,
                   callVars, snapVars, lock, stop_flag, retpc, local_line, cur_st, ticks>>

\* b: player.stop() and back to the search screen
key_back ==
    /\ pc.main = "getch"
    /\ playing' = FALSE
    /\ Goto("main", "search")
    /\ UNCHANGED <<npVars, envVars, volumes, state, vol_file, state_file, media, engineVol,
                   callVars, snapVars, lock, stop_flag, retpc, local_line, cur_st, ticks>>

\* q: SystemExit, caught in main, which goes on to player.shutdown()
key_quit ==
    /\ pc.main = "getch"
    /\ Goto("main", "shutdown_flag")
    /\ UNCHANGED <<npVars, envVars, playerVars, callVars, snapVars, lock, stop_flag,
                   retpc, local_line, cur_st, ticks>>

(* play_station(station) on the main thread *)

ps_url ==
    /\ pc.main = "ps_url"
    /\ IF UrlPresent(cur_st)
       THEN Goto("main", "ps_stop") ELSE Goto("main", "sn_acquire")
    /\ UNCHANGED <<npVars, envVars, playerVars, callVars, snapVars, lock, stop_flag,
                   retpc, local_line, cur_st, ticks>>

ps_stop ==
    /\ pc.main = "ps_stop"
    /\ playing' = FALSE
    /\ Goto("main", "ss_acquire")
    /\ UNCHANGED <<npVars, envVars, volumes, state, vol_file, state_file, media, engineVol,
                   callVars, snapVars, lock, stop_flag, retpc, local_line, cur_st, ticks>>

\* media_new(url), set_media(media), play()
ps_media ==
    /\ pc.main = "ps_media"
    /\ media' = cur_st.url_resolved
    /\ playing' = TRUE
    /\ Goto("main", "ps_volume")
    /\ UNCHANGED <<npVars, envVars, volumes, state, vol_file, state_file, engineVol,
                   callVars, snapVars, lock, stop_flag, retpc, local_line, cur_st, ticks>>

ps_volume ==
    /\ pc.main = "ps_volume"
    /\ engineVol' = VolumeAfterPlay(cur_st.stationuuid, volumes, engineVol)
    /\ Goto("main", "ps_save")
    /\ UNCHANGED <<npVars, envVars, volumes, state, vol_file, state_file, media, playing,
                   callVars, snapVars, lock, stop_flag, retpc, local_line, cur_st, ticks>>

\* self.state["last_stationuuid"] = stationuuid; save_json(STATE_FILE, self.state)
ps_save ==
    /\ pc.main = "ps_save"
    /\ state' = [state EXCEPT !.last_stationuuid = cur_st.stationuuid]
    /\ state_file' = state'
    /\ Goto("main", "sn_acquire")
    /\ UNCHANGED <<npVars, envVars, volumes, vol_file, media, playing, engineVol,
                   callVars, snapVars, lock, stop_flag, retpc, local_line, cur_st, ticks>>

(* shutdown() and the end of main *)

sd_flag ==
    /\ pc.main = "shutdown_flag"
    /\ stop_flag' = ShutdownFlag(stop_flag)
    /\ Goto("main", "shutdown_stop")
    /\ UNCHANGED <<npVars, envVars, playerVars, callVars, snapVars, lock, retpc,
                   local_line, cur_st, ticks>>

sd_stop ==
    /\ pc.main = "shutdown_stop"
    /\ playing' = FALSE
    /\ Goto("main", "shutdown_returned")
    /\ UNCHANGED <<npVars, envVars, volumes, state, vol_file, state_file, media, engineVol,
                   callVars, snapVars, lock, stop_flag, retpc, local_line, cur_st, ticks>>

\* vu.close(); main returns and the process exits, taking the daemon thread with it
m_exit ==
    /\ pc.main = "shutdown_returned"
    /\ Goto("main", "exited")
    /\ UNCHANGED <<npVars, envVars, playerVars, callVars, snapVars, lock, stop_flag,
                   retpc, local_line, cur_st, ticks>>

(* _meta_loop on the poller thread *)

\* the iteration in which a tick first failed
FirstFailure == IF fail_tick = 0 THEN ticks ELSE fail_tick

\* while not self._stop_flag
p_loop ==
    /\ pc.poller = "loop"
    /\ Alive
    /\ IF stop_flag
       THEN Goto("poller", "terminated") /\ ticks' = ticks
       ELSE ticks < MaxTicks /\ ticks' = ticks + 1 /\ Goto("poller", "tick")
    /\ UNCHANGED <<npVars, envVars, playerVars, callVars, snapVars, lock, stop_flag,
                   retpc, local_line, cur_st>>

\* get_media() returns None: nothing is loaded
p_no_media ==
    /\ pc.poller = "tick"
    /\ Alive
    /\ media = None
    /\ Goto("poller", "sleep")
    /\ fail_tick' = FirstFailure
    /\ UNCHANGED <<npVars, in_tmux, storeVars, browserVars, playerVars, callVars, snapVars, lock, stop_flag,
                   retpc, local_line, cur_st, ticks>>

\* an engine call of the tick raises: except Exception: pass
p_raise_Uncaught ==
    /\ pc.poller = "tick"
    /\ Alive
    /\ Goto("poller", "terminated")
    /\ fail_tick' = FirstFailure
    /\ UNCHANGED <<npVars, in_tmux, storeVars, browserVars, playerVars, callVars, snapVars, lock, stop_flag,
                   retpc, local_line, cur_st, ticks>>

p_raise ==
    /\ pc.poller = "tick"
    /\ Alive
    /\ Goto("poller", "sleep")
    /\ fail_tick' = FirstFailure
    /\ UNCHANGED <<npVars, in_tmux, storeVars, browserVars, playerVars, callVars, snapVars, lock, stop_flag,
                   retpc, local_line, cur_st, ticks>>

\* the tags are read and self.now.update_line(now) is called
p_meta ==
    /\ pc.poller = "tick"
    /\ Alive
    /\ media # None
    /\ \E m \in Metas : local_line' = [local_line EXCEPT !.poller = MetaLine(m)]
    /\ retpc' = [retpc EXCEPT !.poller = "sleep"]
    /\ Goto("poller", "ul_strip")
    /\ UNCHANGED <<npVars, envVars, playerVars, callVars, snapVars, lock, stop_flag,
                   cur_st, ticks>>

\* time.sleep(1.5)
p_sleep ==
    /\ pc.poller = "sleep"
    /\ Alive
    /\ Goto("poller", "loop")
    /\ UNCHANGED <<npVars, envVars, playerVars, callVars, snapVars, lock, stop_flag,
                   retpc, local_line, cur_st, ticks>>

UpdateLineStep(t) ==
    \/ ul_strip(t) \/ ul_acquire(t) \/ ul_cmp(t) \/ ul_setline(t) \/ ul_insert(t)
    \/ ul_slice(t) \/ ul_write(t) \/ ul_tmux(t) \/ ul_release(t)

MainStep ==
    \/ m_start \/ m_search \/ UpdateLineStep("main")
    \/ sn_acquire \/ sn_name \/ sn_line \/ sn_hist \/ sn_release
    \/ key_enter \/ key_stop \/ key_back \/ key_quit
    \/ ps_url \/ ps_stop
    \/ ss_acquire \/ ss_name \/ ss_uuid \/ ss_write \/ ss_tmux \/ ss_release
    \/ ps_media \/ ps_volume \/ ps_save
    \/ sd_flag \/ sd_stop \/ m_exit

PollerStep ==
    \/ p_loop \/ p_no_media \/ p_raise \/ p_meta \/ p_sleep
    \/ UpdateLineStep("poller")

Next == MainStep \/ PollerStep

Spec == Init /\ [][Next]_vars

----------------------------------------------------------------------------
(* SpecPlayer: the Player's operations, one call at a time (main thread only) *)

\* contents VOL_FILE and STATE_FILE may have when the program starts
VolFiles == {EmptyMap, [u \in {"u1"} |-> 150], [u \in {"u1", "u2"} |-> IF u = "u1" THEN 40 ELSE -5]}
StateFiles == {DefaultState, [last_stationuuid |-> "u2", show_history |-> FALSE]}
\* volumes the engine may report before any has been set
EngineVols == {-1, 0, 100}
\* arguments of set_volume
VolInputs == {-5, 35, 250}

InitP ==
    /\ InitNowPlaying
    /\ in_tmux = FALSE
    /\ InitThreads
    /\ InitCalls
    /\ \E vf \in VolFiles, sf \in StateFiles, ev \in EngineVols : InitPlayer(vf, sf, ev)
    /\ InitStore
    /\ InitBrowser

\* get_volume(): the engine answers with the volume it was last given
get_volume == engineVol

play_station(st) ==
    /\ op' = "play_station"
    /\ arg' = st
    /\ IF ~UrlPresent(st)
       THEN /\ res' = "False"
            /\ UNCHANGED <<npVars, playerVars>>
       ELSE /\ set_station(st.name, st.stationuuid)
            /\ media' = st.url_resolved
            /\ playing' = TRUE
            /\ engineVol' = VolumeAfterPlay(st.stationuuid, volumes, get_volume)
            /\ state' = [state EXCEPT !.last_stationuuid = st.stationuuid]
            /\ state_file' = state'
            /\ res' = "True"
            /\ UNCHANGED <<volumes, vol_file>>

set_volume(v) ==
    /\ engineVol' = SetVolumeValue(v)

\* save_station_volume(stationuuid), after the engine's volume has become ev
save_station_volume(u, ev) ==
    IF ~Truthy(u)
    THEN UNCHANGED <<volumes, vol_file>>
    ELSE /\ volumes' = DictSet(volumes, u, ev)
         /\ vol_file' = volumes'

PlayerPlayStation ==
    /\ \E i \in 1..Len(Stations) : play_station(Stations[i])
    /\ UNCHANGED <<envVars, threadVars, volkeys>>

PlayerSetVolume ==
    /\ \E v \in VolInputs : set_volume(v) /\ arg' = v
    /\ op' = "set_volume"
    /\ res' = None
    /\ UNCHANGED <<npVars, envVars, volumes, state, vol_file, state_file, media, playing,
                   threadVars, volkeys>>

\* the + or - key of station_browser with stations[i] selected; d is +1 or -1
VolumeKey(d, name) ==
    /\ volkeys < MaxVolKeys
    /\ volkeys' = volkeys + 1
    /\ \E i \in 1..Len(Stations) :
        /\ set_volume(get_volume + d * VOLUME_STEP)
        /\ save_station_volume(Stations[i].stationuuid, get_volume')
        /\ arg' = Stations[i]
    /\ op' = name
    /\ res' = None
    /\ UNCHANGED <<npVars, envVars, state, state_file, media, playing, threadVars>>

PlayerKeyPlus == VolumeKey(1, "key_plus")
PlayerKeyMinus == VolumeKey(-1, "key_minus")

\* the engine's stop() is accepted in every engine state; stop() would swallow
\* whatever it raised
stop ==
    /\ playing' = FALSE

PlayerStop ==
    /\ stop
    /\ op' = "stop"
    /\ arg' = <<>>
    /\ res' = None
    /\ UNCHANGED <<npVars, envVars, volumes, state, vol_file, state_file, media,
                   engineVol, threadVars, volkeys>>

shutdown ==
    /\ stop_flag' = ShutdownFlag(stop_flag)
    /\ stop

\* arg records what the call found: the stop flag and the playback state before it
PlayerShutdown ==
    /\ shutdown
    /\ op' = "shutdown"
    /\ arg' = [stop_flag |-> stop_flag, playing |-> playing]
    /\ res' = None
    /\ UNCHANGED <<npVars, envVars, volumes, state, vol_file, state_file, media,
                   engineVol, lock, pc, retpc, local_line, cur_st, snapVars, ticks,
                   volkeys>>

NextP ==
    \/ PlayerPlayStation
    \/ PlayerSetVolume
    \/ PlayerKeyPlus
    \/ PlayerKeyMinus
    \/ PlayerStop
    \/ PlayerShutdown

SpecPlayer == InitP /\ [][NextP]_vars

----------------------------------------------------------------------------
(* SpecStore: the three JSON files of CONFIG_DIR over the life of the process:
   ensure_dirs, the loads of Player.__init__, autostart_last and station_browser,
   save_json statement by statement, a crash of the process at any statement *)

InitS ==
    /\ InitNowPlaying
    /\ in_tmux = FALSE
    /\ InitThreads
    /\ InitCalls
    /\ InitPlayer(EmptyMap, DefaultState, 0)
    /\ InitBrowser
    /\ fs \in {f \in [Paths -> UNION {StartContents(p) : p \in Targets}] :
                 \A p \in Targets : f[p] \in StartContents(p) /\ f[TmpPath(p)] = Missing}
    /\ sp = "down"
    /\ ens = 1
    /\ wr = NoWrite
    /\ faults = 0
    /\ saves = 0
    /\ favs = EmptyMap
    /\ b_volumes = EmptyMap
    /\ b_state = DefaultState

Call(o, a, r) == op' = o /\ arg' = a /\ res' = r

\* the program is started
StoreStart ==
    /\ sp = "down"
    /\ sp' = "ensure"
    /\ Call("main", <<>>, None)
    /\ UNCHANGED <<fs, ens, wr, faults, saves, saves, memVars, notStoreVars>>

\* ensure_dirs, one file of its loop: if not os.path.exists(path): open(path, "w")
EnsureFile ==
    /\ sp = "ensure"
    /\ ens <= Len(EnsureOrder)
    /\ LET p == EnsureOrder[ens] IN
        IF fs[p].exists
        THEN /\ ens' = ens + 1
             /\ UNCHANGED <<sp, wr>>
        ELSE /\ wr' = [kind |-> "direct", path |-> p, tmp |-> p,
                       todo |-> Serialize(DefaultOf(p)), data |-> DefaultOf(p),
                       prev |-> fs[p], ret |-> "ensure"]
             /\ sp' = "open"
             /\ ens' = ens + 1
    /\ Call("ensure_dirs", EnsureOrder[ens], None)
    /\ UNCHANGED <<fs, faults, saves, memVars, notStoreVars>>

\* ensure_dirs returns
EnsureDone ==
    /\ sp = "ensure"
    /\ ens > Len(EnsureOrder)
    /\ ens' = 1
    /\ sp' = "init_volumes"
    /\ Call("ensure_dirs", <<>>, None)
    /\ UNCHANGED <<fs, wr, faults, saves, memVars, notStoreVars>>

\* open(tmp, "w") creates the file or empties it
WriteOpen ==
    /\ sp = "open"
    /\ fs' = [fs EXCEPT ![wr.tmp] = File(<<>>)]
    /\ sp' = "write"
    /\ Call("open", wr.tmp, None)
    /\ UNCHANGED <<ens, wr, faults, saves, memVars, notStoreVars>>

\* json.dump: the next chunk reaches the file
WriteChunk ==
    /\ sp = "write"
    /\ wr.todo # <<>>
    /\ fs' = [fs EXCEPT ![wr.tmp] = File(fs[wr.tmp].data \o <<Head(wr.todo)>>)]
    /\ wr' = [wr EXCEPT !.todo = Tail(wr.todo)]
    /\ Call("dump", wr.tmp, None)
    /\ UNCHANGED <<sp, ens, faults, saves, memVars, notStoreVars>>

\* the with block closes the file; ensure_dirs goes on, save_json goes to os.replace
WriteClose ==
    /\ sp = "write"
    /\ wr.todo = <<>>
    /\ IF wr.kind = "direct"
       THEN sp' = wr.ret /\ wr' = NoWrite
       ELSE sp' = "replace" /\ wr' = wr
    /\ Call("close", wr.tmp, None)
    /\ UNCHANGED <<fs, ens, faults, saves, memVars, notStoreVars>>

\* os.replace(tmp, path); save_json returns
SaveReplace ==
    /\ sp = "replace"
    /\ fs' = Replace(fs, wr.tmp, wr.path)
    /\ sp' = wr.ret
    /\ wr' = NoWrite
    /\ Call("replace", wr.path, None)
    /\ UNCHANGED <<ens, faults, saves, memVars, notStoreVars>>

\* save_json(path, data) is entered from Browsing; after it the caller goes on at ret
save_json(path, data, ret) ==
    /\ saves < MaxSaves
    /\ saves' = saves + 1
    /\ wr' = [kind |-> "save", path |-> path, tmp |-> TmpPath(path),
              todo |-> Serialize(data), data |-> data, prev |-> fs[path], ret |-> ret]
    /\ sp' = "open"

\* Player.__init__: self.volumes = load_json(VOL_FILE, {})
InitVolumes ==
    /\ sp = "init_volumes"
    /\ volumes' = load_json(fs, VOL_FILE, EmptyMap)
    /\ sp' = "init_state"
    /\ Call("load_json", VOL_FILE, volumes')
    /\ UNCHANGED <<fs, ens, wr, faults, saves, state, favs, b_volumes, b_state,
                   notStoreVars>>

\* Player.__init__: self.state = load_json(STATE_FILE, {...})
InitState ==
    /\ sp = "init_state"
    /\ state' = load_json(fs, STATE_FILE, DefaultState)
    /\ sp' = "autostart"
    /\ Call("load_json", STATE_FILE, state')
    /\ UNCHANGED <<fs, ens, wr, faults, saves, volumes, favs, b_volumes, b_state,
                   notStoreVars>>

\* the .get of a dict that may lack the key
DictGet(d, k, default) == IF k \in DOMAIN d THEN d[k] ELSE default

\* autostart_last: its own load with a default of one key, of which it returns
\* last_stationuuid
autostart_last ==
    /\ sp = "autostart"
    /\ sp' = "load_favs"
    /\ Call("autostart_last", STATE_FILE,
            DictGet(load_json(fs, STATE_FILE, [last_stationuuid |-> None]),
                    "last_stationuuid", None))
    /\ UNCHANGED <<fs, ens, wr, faults, saves, saves, memVars, notStoreVars>>

\* station_browser: favs = load_json(FAV_FILE, {})
LoadFavs ==
    /\ sp = "load_favs"
    /\ favs' = load_json(fs, FAV_FILE, EmptyMap)
    /\ sp' = "load_volumes"
    /\ Call("load_json", FAV_FILE, favs')
    /\ UNCHANGED <<fs, ens, wr, faults, saves, volumes, state, b_volumes, b_state,
                   notStoreVars>>

\* station_browser: volumes = load_json(VOL_FILE, {}), also after each volume key
LoadVolumes ==
    /\ sp \in {"load_volumes", "reload_volumes"}
    /\ b_volumes' = load_json(fs, VOL_FILE, EmptyMap)
    /\ sp' = IF sp = "load_volumes" THEN "load_state" ELSE "browsing"
    /\ Call("load_json", VOL_FILE, b_volumes')
    /\ UNCHANGED <<fs, ens, wr, faults, saves, volumes, state, favs, b_state,
                   notStoreVars>>

\* station_browser: state = load_json(STATE_FILE, {...})
LoadState ==
    /\ sp = "load_state"
    /\ b_state' = load_json(fs, STATE_FILE, DefaultState)
    /\ sp' = "browsing"
    /\ Call("load_json", STATE_FILE, b_state')
    /\ UNCHANGED <<fs, ens, wr, faults, saves, volumes, state, favs, b_volumes,
                   notStoreVars>>

StoreUuids == {"u1"}
StoreSlots == {"1"}
StoreVolumes == {75}

\* a digit key on a station with a UUID: favs[slot] = su; save_json(FAV_FILE, favs)
StoreFavorite ==
    /\ sp = "browsing"
    /\ \E slot \in StoreSlots, su \in StoreUuids :
        /\ favs' = DictSet(favs, slot, su)
        /\ save_json(FAV_FILE, favs', "browsing")
        /\ Call("save_json", FAV_FILE, None)
    /\ UNCHANGED <<fs, ens, faults, volumes, state, b_volumes, b_state,
                   notStoreVars>>

\* play_station: self.state["last_stationuuid"] = ...; save_json(STATE_FILE, self.state)
StoreLast ==
    /\ sp = "browsing"
    /\ \E su \in StoreUuids :
        /\ state' = DictSet(state, "last_stationuuid", su)
        /\ save_json(STATE_FILE, state', "browsing")
        /\ Call("save_json", STATE_FILE, None)
    /\ UNCHANGED <<fs, ens, faults, volumes, favs, b_volumes, b_state,
                   notStoreVars>>

\* a volume key: save_station_volume, then the browser reads the file again
StoreVolume ==
    /\ sp = "browsing"
    /\ \E su \in StoreUuids, v \in StoreVolumes :
        /\ volumes' = DictSet(volumes, su, v)
        /\ save_json(VOL_FILE, volumes', "reload_volumes")
        /\ Call("save_json", VOL_FILE, None)
    /\ UNCHANGED <<fs, ens, faults, state, favs, b_volumes, b_state,
                   notStoreVars>>

\* the h key: state["show_history"] = show_history; save_json(STATE_FILE, state)
StoreToggle ==
    /\ sp = "browsing"
    /\ b_state' = DictSet(b_state, "show_history", ~DictGet(b_state, "show_history", TRUE))
    /\ save_json(STATE_FILE, b_state', "browsing")
    /\ Call("save_json", STATE_FILE, None)
    /\ UNCHANGED <<fs, ens, faults, volumes, state, favs, b_volumes,
                   notStoreVars>>

\* the process ends (q, or it is killed at whatever statement it has reached): its
\* memory is gone, the files stay as they are
ProcessEnds(how) ==
    /\ sp' = "down"
    /\ ens' = 1
    /\ wr' = NoWrite
    /\ volumes' = EmptyMap
    /\ state' = DefaultState
    /\ favs' = EmptyMap
    /\ b_volumes' = EmptyMap
    /\ b_state' = DefaultState
    /\ Call(how, <<>>, None)
    /\ UNCHANGED <<fs, saves, notStoreVars>>

StoreQuit ==
    /\ sp = "browsing"
    /\ ProcessEnds("quit")
    /\ UNCHANGED faults

StoreCrash ==
    /\ sp # "down"
    /\ faults < MaxFaults
    /\ faults' = faults + 1
    /\ ProcessEnds("crash")

\* somebody removes one of the files while the program runs
StoreRemove ==
    /\ sp # "down"
    /\ faults < MaxFaults
    /\ faults' = faults + 1
    /\ \E p \in Targets :
        /\ fs[p].exists
        /\ fs' = [fs EXCEPT ![p] = Missing]
        /\ wr' = IF wr.path = p THEN [wr EXCEPT !.prev = Missing] ELSE wr
        /\ Call("remove", p, None)
    /\ UNCHANGED <<sp, ens, saves, memVars, notStoreVars>>

NextS ==
    \/ StoreStart \/ EnsureFile \/ EnsureDone
    \/ WriteOpen \/ WriteChunk \/ WriteClose \/ SaveReplace
    \/ InitVolumes \/ InitState \/ autostart_last
    \/ LoadFavs \/ LoadVolumes \/ LoadState
    \/ StoreFavorite \/ StoreLast \/ StoreVolume \/ StoreToggle
    \/ StoreQuit \/ StoreCrash \/ StoreRemove

SpecStore == InitS /\ [][NextS]_vars

----------------------------------------------------------------------------
(* SpecBrowser: station_browser, one key at a time (main thread only) *)

\* the stations of the search result the browser shows
BrowseList == <<
    [name |-> "R1", stationuuid |-> "u1", url_resolved |-> "http://r1"],
    [name |-> "R2", stationuuid |-> "u2", url_resolved |-> "http://r2"],
    [name |-> "R3", stationuuid |-> "",   url_resolved |-> "http://r3"],
    [name |-> "R4", stationuuid |-> "u3", url_resolved |-> "http://r4"],
    [name |-> "R5", stationuuid |-> "u3", url_resolved |-> "http://r5"],
    [name |-> "R6", stationuuid |-> "u4", url_resolved |-> "http://r6"],
    [name |-> "R7", stationuuid |-> "u5", url_resolved |-> "http://r7"] >>

\* the digit keys, key in range(ord("1"), ord("9") + 1)
Digits == {"1", "2", "3", "4", "5", "6", "7", "8", "9"}
\* the digit keys pressed in the runs considered, and the keys pressed at the prompt
FavKeys == {"1", "9"}
PromptKeys == FavKeys \cup {"0", "q", "s", "h", "b", "g", "ENTER", "KEY_UP"}
\* what favorites.json may hold when the browser is entered first
FavFiles == {EmptyMap, [s \in {"1"} |-> "u7"], [s \in {"1", "9"} |-> IF s = "1" THEN "u2" ELSE "u3"]}
\* heights of the terminal
Heights == {19, 30}

\* top = len(BANNER) + 1
top == 8
\* history_h = 10 if show_history else 0
history_h(show) == IF show THEN 10 ELSE 0
\* list_h = max(5, h - top - 6 - history_h)
list_h(h, show) == Max(5, h - top - 6 - history_h(show))

\* favs[chr(key)] = su
AssignFavorite_KeepFirst(f, slot, su) == IF slot \in DOMAIN f THEN f ELSE DictSet(f, slot, su)

AssignFavorite(f, slot, su) == DictSet(f, slot, su)

\* the index (from 0) the goto loop stops at: the first station with that UUID
FirstIndex(stations, su) ==
    CHOOSE i \in 0..(Len(stations) - 1) :
        /\ stations[i + 1].stationuuid = su
        /\ \A j \in 0..(i - 1) : stations[j + 1].stationuuid # su

InList(stations, su) == \E i \in 1..Len(stations) : stations[i].stationuuid = su

\* everything the steps of SpecBrowser leave alone
notBrowserVars == <<npVars, in_tmux, fail_tick, threadVars, volumes, state, vol_file, media,
                    engineVol, volkeys, fs, sp, ens, wr, faults, saves, b_volumes>>

InitB ==
    /\ InitNowPlaying
    /\ in_tmux = FALSE
    /\ InitThreads
    /\ InitCalls
    /\ \E sf \in StateFiles : InitPlayer(EmptyMap, sf, 0)
    /\ fs = [p \in Paths |-> Missing]
    /\ sp = "down"
    /\ ens = 1
    /\ wr = NoWrite
    /\ faults = 0
    /\ saves = 0
    /\ b_volumes = EmptyMap
    /\ fav_file \in FavFiles
    /\ term_h \in Heights
    /\ favs = EmptyMap
    /\ b_state = DefaultState
    /\ selected = 0
    /\ offset = 0
    /\ show_history = TRUE
    /\ hist_sel = 0
    /\ hist_scroll = 0
    /\ bpc = "search"

\* station_browser is entered: lines 384-393
EnterBrowser ==
    /\ bpc = "search"
    /\ favs' = fav_file
    /\ b_state' = state_file
    /\ selected' = 0
    /\ offset' = 0
    /\ show_history' = state_file.show_history
    /\ hist_sel' = 0
    /\ hist_scroll' = 0
    /\ bpc' = "browse"
    /\ Call("station_browser", <<>>, None)
    /\ UNCHANGED <<fav_file, term_h, state_file, playing, notBrowserVars>>

KeyUp ==
    /\ bpc = "browse"
    /\ IF selected > 0
       THEN /\ selected' = selected - 1
            /\ offset' = IF selected' < offset THEN offset - 1 ELSE offset
       ELSE UNCHANGED <<selected, offset>>
    /\ Call("KEY_UP", <<>>, None)
    /\ UNCHANGED <<bpc, favs, fav_file, b_state, show_history, term_h, hist_sel,
                   hist_scroll, state_file, playing, notBrowserVars>>

KeyDown ==
    /\ bpc = "browse"
    /\ IF selected < Len(BrowseList) - 1
       THEN /\ selected' = selected + 1
            /\ offset' = IF selected' >= offset + list_h(term_h, show_history)
                         THEN offset + 1 ELSE offset
       ELSE UNCHANGED <<selected, offset>>
    /\ Call("KEY_DOWN", <<>>, None)
    /\ UNCHANGED <<bpc, favs, fav_file, b_state, show_history, term_h, hist_sel,
                   hist_scroll, state_file, playing, notBrowserVars>>

\* a digit key: the selected station becomes the favorite of that slot (arg
\* records the key and what the slot held)
KeyFavorite ==
    /\ bpc = "browse"
    /\ \E key \in FavKeys :
        LET su == BrowseList[selected + 1].stationuuid IN
        /\ IF Truthy(su)
           THEN /\ favs' = AssignFavorite(favs, key, su)
                /\ fav_file' = favs'
           ELSE UNCHANGED <<favs, fav_file>>
        /\ Call("favorite", <<key, DictGet(favs, key, None)>>, su)
    /\ UNCHANGED <<bpc, selected, offset, b_state, show_history, term_h, hist_sel,
                   hist_scroll, state_file, playing, notBrowserVars>>

\* g: the status bar asks for a digit and getch waits for the next key
KeyGoto ==
    /\ bpc = "browse"
    /\ bpc' = "goto_prompt"
    /\ Call("g", <<>>, None)
    /\ UNCHANGED <<selected, offset, favs, fav_file, b_state, show_history, term_h,
                   hist_sel, hist_scroll, state_file, playing, notBrowserVars>>

\* the key k2 read at the prompt
PromptKey_WaitsForDigit(k2) ==
    /\ bpc = "goto_prompt"
    /\ bpc' = IF k2 \in Digits THEN "browse" ELSE "goto_prompt"
    /\ IF k2 \in Digits /\ k2 \in DOMAIN favs /\ Truthy(DictGet(favs, k2, None))
          /\ InList(BrowseList, DictGet(favs, k2, None))
       THEN /\ selected' = FirstIndex(BrowseList, favs[k2])
            /\ offset' = Max(0, selected' - 3)
       ELSE UNCHANGED <<selected, offset>>
    /\ Call("goto", k2, None)
    /\ UNCHANGED <<favs, fav_file, b_state, show_history, term_h, hist_sel, hist_scroll,
                   state_file, playing, notBrowserVars>>

PromptKey(k2) ==
    /\ bpc = "goto_prompt"
    /\ bpc' = "browse"
    /\ IF k2 \in Digits /\ k2 \in DOMAIN favs /\ Truthy(DictGet(favs, k2, None))
          /\ InList(BrowseList, DictGet(favs, k2, None))
       THEN /\ selected' = FirstIndex(BrowseList, favs[k2])
            /\ offset' = Max(0, selected' - 3)
       ELSE UNCHANGED <<selected, offset>>
    /\ Call("goto", k2, None)
    /\ UNCHANGED <<favs, fav_file, b_state, show_history, term_h, hist_sel, hist_scroll,
                   state_file, playing, notBrowserVars>>

KeyGotoSecond == \E k2 \in PromptKeys : PromptKey(k2)

\* h: show_history = not show_history; state["show_history"] = show_history;
\* save_json(STATE_FILE, state), state being the dict the browser loaded
KeyToggleHistory ==
    /\ bpc = "browse"
    /\ show_history' = ~show_history
    /\ b_state' = [b_state EXCEPT !.show_history = show_history']
    /\ state_file' = b_state'
    /\ Call("toggle_history", <<>>, None)
    /\ UNCHANGED <<bpc, selected, offset, favs, fav_file, term_h, hist_sel, hist_scroll,
                   playing, notBrowserVars>>

\* the terminal is resized; the next frame reads the new height
Resize ==
    /\ bpc = "browse"
    /\ \E h \in Heights : h # term_h /\ term_h' = h
    /\ Call("KEY_RESIZE", <<>>, None)
    /\ UNCHANGED <<bpc, selected, offset, favs, fav_file, b_state, show_history, hist_sel,
                   hist_scroll, state_file, playing, notBrowserVars>>

\* b: player.stop(); return to the search prompt
KeyBack ==
    /\ bpc = "browse"
    /\ stop
    /\ bpc' = "search"
    /\ Call("b", <<>>, None)
    /\ UNCHANGED <<selected, offset, favs, fav_file, b_state, show_history, term_h,
                   hist_sel, hist_scroll, state_file, notBrowserVars>>

\* q: raise SystemExit
KeyQuit ==
    /\ bpc = "browse"
    /\ bpc' = "quit"
    /\ Call("q", <<>>, None)
    /\ UNCHANGED <<selected, offset, favs, fav_file, b_state, show_history, term_h,
                   hist_sel, hist_scroll, state_file, playing, notBrowserVars>>

NextB ==
    \/ EnterBrowser \/ KeyUp \/ KeyDown \/ KeyFavorite \/ KeyGoto \/ KeyGotoSecond
    \/ KeyToggleHistory \/ Resize \/ KeyBack \/ KeyQuit

SpecBrowser == InitB /\ [][NextB]_vars

----------------------------------------------------------------------------
(* SpecSession: the session-state file under the ENTER, h and b keys *)

\* ENTER: player.play_station(stations[selected])
KeyEnter ==
    /\ bpc = "browse"
    /\ PlayerPlayStation

NextSession == EnterBrowser \/ KeyEnter \/ KeyToggleHistory \/ KeyBack

SpecSession == InitP /\ [][NextSession]_vars

----------------------------------------------------------------------------
(* SpecPanel: the metadata history box of station_browser, frame by frame, with
   the poller adding lines and the terminal changing size at any moment *)

\* lines the poller adds in the runs considered
MaxPanelHist == 8
\* heights of the terminal
PanelHeights == {3, 9, 30}

\* box_h = min(history_h, h - 2)
box_h(h) == Min(history_h(TRUE), h - 2)
\* hist_sel = clamp(hist_sel, 0, max(0, len(history) - 1))
SelInFrame(sel, len) == clamp(sel, 0, Max(0, len - 1))
\* hist_scroll = clamp(hist_scroll, 0, max(0, len(history) - (box_h - 2)))
ScrollInFrame_AsKeys(scroll, len, bh) == clamp(scroll, 0, Max(0, len - 1))

ScrollInFrame(scroll, len, bh) == clamp(scroll, 0, Max(0, len - (bh - 2)))

\* the step of the page keys
PAGE_STEP == 5

\* everything the steps of SpecPanel leave alone
notPanelVars == <<station_name, stationuuid, in_tmux, fail_tick, lock, stop_flag, pc, retpc,
                  local_line, cur_st, ticks, volumes, state, vol_file, media, playing,
                  engineVol, volkeys, fs, sp, ens, wr, faults, saves, favs, b_volumes,
                  selected, offset, fav_file>>

\* station_browser has been entered and is about to draw its first frame
InitPanel ==
    /\ InitNowPlaying
    /\ in_tmux = FALSE
    /\ InitThreads
    /\ InitCalls
    /\ \E sf \in StateFiles : InitPlayer(EmptyMap, sf, 0)
    /\ fs = [p \in Paths |-> Missing]
    /\ sp = "down"
    /\ ens = 1
    /\ wr = NoWrite
    /\ faults = 0
    /\ saves = 0
    /\ favs = EmptyMap
    /\ b_volumes = EmptyMap
    /\ b_state = state_file
    /\ selected = 0
    /\ offset = 0
    /\ show_history = state_file.show_history
    /\ hist_sel = 0
    /\ hist_scroll = 0
    /\ bpc = "draw"
    /\ fav_file = EmptyMap
    /\ term_h \in PanelHeights

\* one frame: the snapshot is taken, the indices are clamped against it and the
\* box is drawn with them; then getch waits
PanelFrame ==
    /\ bpc = "draw"
    /\ snap_name' = station_name
    /\ snap_line' = line
    /\ snap_hist' = history
    /\ snap_alias' = FALSE
    /\ IF show_history
       THEN /\ hist_sel' = SelInFrame(hist_sel, Len(snap_hist'))
            /\ hist_scroll' = ScrollInFrame(hist_scroll, Len(snap_hist'), box_h(term_h))
       ELSE UNCHANGED <<hist_sel, hist_scroll>>
    /\ bpc' = "browse"
    /\ Call("frame", <<>>, None)
    /\ UNCHANGED <<line, history, nowplay_file, tmux_opt, show_history, b_state, state_file,
                   term_h, notPanelVars>>

\* PgUp and PgDn, d being +1 and -1: both indices move by 5 within the history
\* of the frame just drawn
PageKey(d, name) ==
    /\ bpc = "browse"
    /\ IF show_history
       THEN /\ hist_sel' = clamp(hist_sel + d * PAGE_STEP, 0, Max(0, Len(snap_hist) - 1))
            /\ hist_scroll' = clamp(hist_scroll + d * PAGE_STEP, 0, Max(0, Len(snap_hist) - 1))
       ELSE UNCHANGED <<hist_sel, hist_scroll>>
    /\ bpc' = "draw"
    /\ Call(name, <<>>, None)
    /\ UNCHANGED <<line, history, nowplay_file, tmux_opt, snapVars, show_history, b_state,
                   state_file, term_h, notPanelVars>>

PanelPageUp == PageKey(1, "KEY_PPAGE")
PanelPageDown == PageKey(-1, "KEY_NPAGE")

\* h
PanelToggle ==
    /\ bpc = "browse"
    /\ show_history' = ~show_history
    /\ b_state' = [b_state EXCEPT !.show_history = show_history']
    /\ state_file' = b_state'
    /\ bpc' = "draw"
    /\ Call("toggle_history", <<>>, None)
    /\ UNCHANGED <<line, history, nowplay_file, tmux_opt, snapVars, hist_sel, hist_scroll,
                   term_h, notPanelVars>>

\* a key that changes nothing of the panel, KEY_RESIZE among them
PanelOtherKey ==
    /\ bpc = "browse"
    /\ bpc' = "draw"
    /\ Call("key", <<>>, None)
    /\ UNCHANGED <<line, history, nowplay_file, tmux_opt, snapVars, hist_sel, hist_scroll,
                   show_history, b_state, state_file, term_h, notPanelVars>>

\* the terminal is resized
PanelResize ==
    /\ \E h \in PanelHeights : h # term_h /\ term_h' = h
    /\ UNCHANGED <<line, history, nowplay_file, tmux_opt, snapVars, hist_sel, hist_scroll,
                   show_history, b_state, state_file, bpc, callVars, notPanelVars>>

\* the poller publishes a line that differs from the current one
PanelTick ==
    /\ Len(history) < MaxPanelHist
    /\ update_line(IF line = TextT THEN TextAT ELSE TextT)
    /\ UNCHANGED <<snapVars, hist_sel, hist_scroll, show_history, b_state, state_file,
                   term_h, bpc, callVars, in_tmux, fail_tick, lock, stop_flag, pc, retpc,
                   local_line, cur_st, ticks, volumes, state, vol_file, media, playing,
                   engineVol, fs, sp, ens, wr, faults, saves, favs, b_volumes,
                   selected, offset, fav_file>>

NextPanel ==
    \/ PanelFrame \/ PanelPageUp \/ PanelPageDown \/ PanelToggle \/ PanelOtherKey
    \/ PanelResize \/ PanelTick

SpecPanel == InitPanel /\ [][NextPanel]_vars

----------------------------------------------------------------------------
(* Claims about NowPlaying's history (SpecHist) *)

Blank(t) == \A i \in 1..Len(t) : t[i] = SPACE

\* C1: in every reachable state the history has at most 200 entries and no two
\* adjacent entries of it are equal.
C1_HistoryBoundedNoAdjacentEqual ==
    /\ Len(history) <= 200
    /\ \A i \in 1..(Len(history) - 1) : history[i] # history[i + 1]

\* a full history whose head the latest update_line call has just inserted
C1_Witness ==
    /\ op = "update_line"
    /\ Len(history) = 200
    /\ history[1] = Strip(arg)
    /\ line = Strip(arg)

\* C10: update_line(text) changes neither line nor history when text is empty or
\* all whitespace or when the stripped text equals the current line; otherwise the
\* stripped text becomes line and history[0], the old entries follow in their old
\* order and whatever lies beyond the 200th entry is dropped.
C10_UpdateLineEffect ==
    [][op' = "update_line" =>
        IF Blank(arg') \/ Strip(arg') = line
        THEN line' = line /\ history' = history
        ELSE /\ line' = Strip(arg')
             /\ Len(history') = Min(Len(history) + 1, 200)
             /\ history'[1] = Strip(arg')
             /\ \A i \in 2..Len(history') : history'[i] = history[i - 1]]_vars

\* a text with surrounding whitespace has just been inserted into a full history
C10_Witness ==
    /\ op = "update_line"
    /\ arg # Strip(arg)
    /\ Len(history) = 200
    /\ history[1] = Strip(arg)
    /\ history[2] # Strip(arg)

\* C6: whenever the history is non-empty, line equals its first entry, after any
\* sequence of update_line and set_station calls from the initial placeholder state.
C6_LineIsHistoryHead == history # <<>> => line = history[1]

\* a station switch after at least two metadata lines were recorded
C6_Witness ==
    /\ op = "set_station"
    /\ station_name = "Unknown"
    /\ Len(history) >= 2
    /\ line = history[1]

\* C11: set_station(name, uuid) replaces the station identity only; line and
\* history stay exactly as they were.
C11_SetStationKeepsLineAndHistory ==
    [][op' = "set_station" =>
        /\ line' = line
        /\ history' = history
        /\ station_name' = (IF arg'.name = "" THEN "Unknown" ELSE arg'.name)
        /\ stationuuid' = arg'.stationuuid]_vars

\* the station was switched while a metadata line of the previous one is shown
C11_Witness ==
    /\ op = "set_station"
    /\ arg.stationuuid = "u3"
    /\ stationuuid = "u3"
    /\ line = TextAT
    /\ Len(history) >= 2
    /\ history[1] = TextAT

----------------------------------------------------------------------------
(* Claims about the two threads (Spec) *)

\* the positions at which _write_nowplay touches the file or spawns tmux
DoingIO(t) == pc[t] \in {"ul_write", "ss_write"} \/ (pc[t] \in {"ul_tmux", "ss_tmux"} /\ in_tmux)

\* C2: once shutdown() has returned, the poller performs no further write of line
\* or history, whatever it was doing when shutdown was called.
C2_NoWriteAfterShutdown ==
    [][pc.main \in {"shutdown_returned", "exited"} => (line' = line /\ history' = history)]_vars

\* C3: when shutdown() returns, the poller thread has terminated.
C3_PollerTerminatedWhenShutdownReturns ==
    pc.main = "shutdown_returned" => pc.poller = "terminated"

\* C4: whoever holds the NowPlaying lock is not doing file I/O or spawning a
\* subprocess, so a snapshot never waits for the poller's I/O.
C4_NoIOUnderLock ==
    /\ \A t \in {"main", "poller"} : lock = t => ~DoingIO(t)
    /\ ~(pc.main = "sn_acquire" /\ lock = "poller" /\ DoingIO("poller"))

\* C5: a snapshot equals the record at one instant (the three reads see the same
\* record), so its line heads its history when that is non-empty, and no step of the
\* poller changes a snapshot the browser already holds.
C5_SnapshotConsistent ==
    /\ [](pc.main = "sn_release" =>
            <<snap_name, snap_line, snap_hist>> = <<station_name, line, history>>)
    /\ [](pc.main = "getch" => (snap_hist # <<>> => snap_line = snap_hist[1]))
    /\ [][pc'.poller # pc.poller => UNCHANGED <<snap_name, snap_line, snap_hist>>]_vars

\* a snapshot is half taken while the poller waits for the lock with a new line
C5_Witness ==
    /\ pc.main = "sn_line"
    /\ lock = "main"
    /\ pc.poller = "ul_acquire"
    /\ local_line.poller # line
    /\ history # <<>>
    /\ station_name # "--"

----------------------------------------------------------------------------
(* Claims about the Player (SpecPlayer) *)

InRange(v) == IF v < 0 THEN 0 ELSE IF v > 100 THEN 100 ELSE v

\* C7: after a successful play_station the engine's volume is the station's persisted
\* volume clamped to 0..100 if it has one; else 70 if the engine's volume was 0; and
\* the persisted state names the station as the last one.
C7_PlayStationVolumeAndLast ==
    [][op' = "play_station" /\ res' = "True" =>
        LET u == arg'.stationuuid IN
        /\ u \in DOMAIN vol_file => engineVol' = InRange(vol_file[u])
        /\ (u \notin DOMAIN vol_file /\ engineVol = 0) => engineVol' = 70
        /\ state_file'.last_stationuuid = u]_vars

\* a station without a persisted volume has just been started at the default volume
C7_Witness ==
    /\ op = "play_station"
    /\ res = "True"
    /\ arg.stationuuid \notin DOMAIN vol_file
    /\ engineVol = 70
    /\ playing
    /\ state_file.last_stationuuid = arg.stationuuid

\* C8: play_station on a station without a resolved URL returns the failure
\* indicator and changes nothing.
C8_PlayStationWithoutUrl ==
    [][op' = "play_station" /\ arg'.url_resolved = "" =>
        /\ res' = "False"
        /\ UNCHANGED <<playing, media, station_name, stationuuid, line, history,
                       engineVol, volumes, vol_file, state, state_file, nowplay_file,
                       tmux_opt>>]_vars

\* the call failed while another station keeps playing
C8_Witness ==
    /\ op = "play_station"
    /\ res = "False"
    /\ arg.url_resolved = ""
    /\ playing
    /\ media = "http://r1"
    /\ station_name = "R1"
    /\ state_file.last_stationuuid = "u1"

\* C9: after set_volume(v) the engine's volume, which get_volume() returns, is v
\* clamped to 0..100; the + and - keys leave it at the old volume plus or minus 5,
\* clamped, hence inside 0..100.
C9_SetVolumeClamps ==
    /\ [][op' = "set_volume" => get_volume' = InRange(arg')]_vars
    /\ [][op' = "key_plus" => get_volume' = InRange(get_volume + 5)]_vars
    /\ [][op' = "key_minus" => get_volume' = InRange(get_volume - 5)]_vars
    /\ [][op' \in {"key_plus", "key_minus"} => get_volume' \in 0..100]_vars

\* set_volume was called with a value above 100
C9_Witness ==
    /\ op = "set_volume"
    /\ arg > 100
    /\ engineVol = 100
\* C16: a tick that fails (an engine call raises, or no media is loaded) goes
\* straight to the sleep with line, history and the now-playing file as they
\* were; the poller leaves a tick only for the sleep or for update_line, leaves
\* the sleep only for the loop test, leaves the loop test for a further tick
\* whenever the stop flag is not set, and terminates only with the flag set; and
\* when the poller's update_line stores a line it is the line the tick built.
C16_FailedTickSkipsAndPollerSurvives ==
    [][/\ (pc.poller = "tick" /\ pc'.poller = "sleep" =>
              /\ line' = line
              /\ history' = history
              /\ nowplay_file' = nowplay_file
              /\ tmux_opt' = tmux_opt)
       /\ (pc.poller = "tick" => pc'.poller \in {"tick", "sleep", "ul_strip"})
       /\ (pc.poller = "sleep" => pc'.poller \in {"sleep", "loop"})
       /\ (pc.poller = "loop" /\ ~stop_flag => pc'.poller \in {"loop", "tick"})
       /\ (pc'.poller = "terminated" => stop_flag)
       /\ (pc.poller = "ul_setline" /\ pc'.poller # "ul_setline" =>
              /\ line' = local_line.poller
              /\ \E m \in Metas : line' = Strip(MetaLine(m)))]_vars

\* the first tick failed and a later tick has published its metadata line
C16_Witness ==
    /\ fail_tick = 1
    /\ ticks >= 2
    /\ ~stop_flag
    /\ pc.poller = "sleep"
    /\ line = MetaLine([artist |-> <<"a">>, title |-> <<"t">>, now_playing |-> <<>>,
                        description |-> <<>>])
    /\ history # <<>>
    /\ history[1] = line
    /\ nowplay_file = NowplayOut(station_name, line) \o <<"\n">>

\* C12: in every step of save_json, a kill of the process during it included,
\* the target holds what it held when save_json was entered or the complete new
\* content; no other file than the temporary one changes, except that the target
\* receives the complete new content; and load_json of the target returns what it
\* returned before the save or the saved data.
C12_SaveJsonAtomic ==
    [][wr.kind = "save" /\ op' \in {"open", "dump", "close", "replace", "crash"} =>
        /\ fs'[wr.path] \in {wr.prev, File(Serialize(wr.data))}
        /\ \A q \in Paths \ {wr.tmp} :
              fs'[q] # fs[q] => q = wr.path /\ fs'[q] = File(Serialize(wr.data))
        /\ load_json(fs', wr.path, DefaultOf(wr.path))
              \in {load_json([fs EXCEPT ![wr.path] = wr.prev], wr.path, DefaultOf(wr.path)),
                   wr.data}]_vars

\* the process was killed in the middle of json.dump: the temporary file holds a
\* piece that is not JSON, the target still what an earlier run had saved
C12_Witness ==
    /\ op = "crash"
    /\ sp = "down"
    /\ fs[TmpPath(STATE_FILE)].exists
    /\ Len(fs[TmpPath(STATE_FILE)].data) = 2
    /\ ~Parses(fs[TmpPath(STATE_FILE)].data)
    /\ fs[STATE_FILE] = File(Serialize(SavedBefore(STATE_FILE)))

\* the dicts a file of the runs considered can hold
JsonDicts(p) ==
    IF p = FAV_FILE THEN UNION {[S -> {"u1", "u2"}] : S \in SUBSET {"1"}}
    ELSE IF p = VOL_FILE THEN UNION {[S -> {40, 75}] : S \in SUBSET {"u1"}}
    ELSE [last_stationuuid : {None, "u1", "u2"}, show_history : BOOLEAN]

\* the file at p is missing or is not the JSON text of a dict
Unreadable(p) == ~fs[p].exists \/ \A d \in JsonDicts(p) : fs[p].data # Serialize(d)

C14_FavoriteSlots ==
    [][/\ DOMAIN favs' \subseteq Digits
       /\ DOMAIN fav_file' \subseteq Digits
       /\ op' = "favorite" /\ Truthy(res') =>
            /\ favs'[arg'[1]] = res'
            /\ DOMAIN favs' = DOMAIN favs \cup {arg'[1]}
            /\ \A k \in DOMAIN favs \ {arg'[1]} : favs'[k] = favs[k]
            /\ fav_file' = favs'
       /\ op' = "favorite" /\ ~Truthy(res') => favs' = favs /\ fav_file' = fav_file
       /\ op' = "station_browser" => favs' = fav_file /\ fav_file' = fav_file
       /\ op' \notin {"favorite", "station_browser"} => favs' = favs /\ fav_file' = fav_file]_vars

\* slot 1, which held u2, has been given to R6 (u4); slot 9 still holds u3
C14_Witness ==
    /\ op = "favorite"
    /\ arg = <<"1", "u2">>
    /\ res = "u4"
    /\ selected = 5
    /\ favs = [s \in {"1", "9"} |-> IF s = "1" THEN "u4" ELSE "u3"]
    /\ fav_file = favs

\* C17: the prompt is entered by g only; the key read there ends it, and changes
\* nothing but selected and offset: when the key is a digit whose slot holds the
\* UUID of a station of the list, selected becomes the index of a station with
\* that UUID, otherwise selected and offset stay.
C17_GotoPromptOneKey ==
    [][/\ bpc' = "goto_prompt" => bpc = "browse" /\ op' = "g"
       /\ bpc = "goto_prompt" =>
            /\ bpc' = "browse"
            /\ op' = "goto"
            /\ UNCHANGED <<npVars, playerVars, stop_flag, favs, fav_file, b_state,
                           b_volumes, show_history, term_h, hist_sel, hist_scroll>>
            /\ IF /\ arg' \in Digits
                  /\ arg' \in DOMAIN favs
                  /\ \E i \in 1..Len(BrowseList) : BrowseList[i].stationuuid = favs[arg']
               THEN /\ selected' \in 0..(Len(BrowseList) - 1)
                    /\ BrowseList[selected' + 1].stationuuid = favs[arg']
               ELSE selected' = selected /\ offset' = offset]_vars

\* 9 was pressed at the prompt with slot 9 holding u4: R6 is selected, three rows
\* below the top of the list
C17_Witness ==
    /\ op = "goto"
    /\ arg = "9"
    /\ bpc = "browse"
    /\ DOMAIN favs = {"1", "9"}
    /\ favs["9"] = "u4"
    /\ selected = 5
    /\ offset = 2

\* C18: in every frame that draws the history box, with history the snapshot
\* taken in that frame and inner height box_h - 2 = min(10, h - 2) - 2,
\* 0 <= hist_sel <= max(0, len(history) - 1) and
\* 0 <= hist_scroll <= max(0, len(history) - inner height).
C18_PanelIndicesInRange ==
    [][op' = "frame" /\ bpc = "draw" /\ show_history' =>
        /\ snap_hist' = history
        /\ 0 <= hist_sel'
        /\ hist_sel' <= Max(0, Len(snap_hist') - 1)
        /\ 0 <= hist_scroll'
        /\ hist_scroll' <= Max(0, Len(snap_hist') - (Min(10, term_h - 2) - 2))]_vars

\* a frame drawn after PgUp on a terminal of 9 rows with 7 lines of history: the
\* selection is line 5, the scroll position has been brought back from 5 to 2
C18_Witness ==
    /\ op = "frame"
    /\ bpc = "browse"
    /\ show_history
    /\ term_h = 9
    /\ Len(snap_hist) = 7
    /\ hist_sel = 5
    /\ hist_scroll = 2

\* C19: the h key leaves the last-station UUID of the session-state file as it
\* was, and a play_station that succeeds leaves its show-history flag as it was.
C19_SessionFileKeepsUpdates ==
    [][/\ op' = "toggle_history" =>
            state_file'.last_stationuuid = state_file.last_stationuuid
       /\ op' = "play_station" /\ res' = "True" =>
            state_file'.show_history = state_file.show_history]_vars

\* C15: every shutdown() call returns normally and leaves playback stopped and
\* the poller's stop flag set, whether or not the flag was already set and
\* whether or not anything was playing; once set, the flag is never cleared; a
\* shutdown() that finds the flag set and nothing playing changes nothing at all.
C15_ShutdownIdempotent ==
    [][/\ op' = "shutdown" => /\ res' = None
                              /\ ~playing'
                              /\ stop_flag'
                              /\ (stop_flag /\ ~playing =>
                                    /\ npVars' = npVars
                                    /\ playerVars' = playerVars
                                    /\ stop_flag' = stop_flag)
       /\ stop_flag => stop_flag']_vars

\* a second shutdown() after one that had stopped a playing station
C15_Witness ==
    /\ op = "shutdown"
    /\ arg.stop_flag
    /\ ~arg.playing
    /\ media # None
    /\ stop_flag
    /\ ~playing
\* C20: a '+' or '-' key pressed while a station with a UUID is playing stores
\* the resulting engine volume in the volume map, in memory and on disk, under
\* the UUID of that playing station.
C20_VolumeSavedUnderPlayingStation ==
    [][op' \in {"key_plus", "key_minus"} /\ playing /\ Truthy(stationuuid) =>
        /\ volumes' = DictSet(volumes, stationuuid, get_volume')
        /\ vol_file' = volumes']_vars
\* C21: in every frame of the browser the selected index is an index of the
\* list and lies in the rows drawn, offset <= selected < offset + list_h, list_h
\* being the height the frame computes from the terminal and the history panel.
C21_SelectedInViewport ==
    bpc = "browse" =>
        /\ 0 <= selected
        /\ selected < Len(BrowseList)
        /\ offset <= selected
        /\ selected < offset + list_h(term_h, show_history)

====
